---- MODULE Spec2Model ----
(***************************************************************************)
(* A model of the PDF reader MCP server: the document loader, the          *)
(* extraction engine, the metadata reader (src/src/pdf_reader.rs), the     *)
(* error mapping (src/src/error.rs) and the four tools that expose them    *)
(* (src/src/service.rs).                                                   *)
(*                                                                         *)
(* Text is a sequence of one-character strings, so that formatting,        *)
(* concatenation and substring search are computed, not assumed.  The      *)
(* object-graph provider (lopdf) is the environment: what it answers for   *)
(* a file is the content of that file in fs.                               *)
(***************************************************************************)
EXTENDS Integers, Sequences, FiniteSets, TLC

VARIABLES fs, last, first

vars == <<fs, last, first>>

---------------------------------------------------------------------------
(* Bounds of the model. *)

MaxPages == 2

---------------------------------------------------------------------------
(* Strings. *)

RECURSIVE Digits(_)
\* Rust's Display of an unsigned integer: its decimal digits.
Digits(n) ==
    LET d == <<"0", "1", "2", "3", "4", "5", "6", "7", "8", "9">>
    IN  IF n < 10 THEN <<d[n + 1]>> ELSE Digits(n \div 10) \o <<d[(n % 10) + 1]>>

RECURSIVE DebugItems(_, _)
DebugItems(v, i) ==
    IF i > Len(v) THEN <<>>
    ELSE (IF i > 1 THEN <<",", " ">> ELSE <<>>) \o Digits(v[i]) \o DebugItems(v, i + 1)

\* Rust's Debug of a Vec<u32>: [1, 2, 3].
DebugVec(v) == <<"[">> \o DebugItems(v, 1) \o <<"]">>

\* str::contains: needle occurs in haystack as a contiguous run.
Contains(haystack, needle) ==
    \E i \in 0..(Len(haystack) - Len(needle)) :
        SubSeq(haystack, i + 1, i + Len(needle)) = needle

EndsWith(s, suffix) ==
    /\ Len(suffix) <= Len(s)
    /\ SubSeq(s, Len(s) - Len(suffix) + 1, Len(s)) = suffix

StrEncrypted == <<"e", "n", "c", "r", "y", "p", "t", "e", "d">>
StrPassword == <<"p", "a", "s", "s", "w", "o", "r", "d">>
StrInvalidLower == <<"i", "n", "v", "a", "l", "i", "d">>
StrInvalidUpper == <<"I", "n", "v", "a", "l", "i", "d">>

NotePrefix == <<"\n", "\n", "[", "N", "o", "t", "e", ":", " ">>
NoteMiddle == <<" ", "p", "a", "g", "e", "(", "s", ")", " ", "c", "o", "u", "l", "d", " ", "n", "o", "t", " ", "b", "e", " ", "e", "x", "t", "r", "a", "c", "t", "e", "d", " ", "d", "u", "e", " ", "t", "o", " ", "f", "o", "n", "t", " ", "e", "n", "c", "o", "d", "i", "n", "g", " ", "i", "s", "s", "u", "e", "s", ":", " ">>
NoteSuffix == <<"]">>

PageFailPrefix == <<"F", "a", "i", "l", "e", "d", " ", "t", "o", " ", "e", "x", "t", "r", "a", "c", "t", " ", "t", "e", "x", "t", " ", "f", "r", "o", "m", " ", "p", "a", "g", "e", " ">>
RangeMsgA == <<"I", "n", "v", "a", "l", "i", "d", " ", "p", "a", "g", "e", " ", "r", "a", "n", "g", "e", ":", " ", "s", "t", "a", "r", "t", "_", "p", "a", "g", "e", " ", "(">>
RangeMsgB == <<")", " ", "m", "u", "s", "t", " ", "b", "e", " ", "<", "=", " ", "e", "n", "d", "_", "p", "a", "g", "e", " ", "(">>
RangeMsgC == <<")">>

MsgFileNotFound == <<"F", "i", "l", "e", " ", "n", "o", "t", " ", "f", "o", "u", "n", "d", ":", " ">>
MsgInvalidFormat == <<"I", "n", "v", "a", "l", "i", "d", " ", "P", "D", "F", " ", "f", "o", "r", "m", "a", "t", ":", " ">>
MsgParseError == <<"P", "D", "F", " ", "p", "a", "r", "s", "i", "n", "g", " ", "f", "a", "i", "l", "e", "d", ":", " ">>
MsgPageA == <<"P", "a", "g", "e", " ">>
MsgPageB == <<" ", "d", "o", "e", "s", " ", "n", "o", "t", " ", "e", "x", "i", "s", "t", " ", "(", "d", "o", "c", "u", "m", "e", "n", "t", " ", "h", "a", "s", " ">>
MsgPageC == <<" ", "p", "a", "g", "e", "s", ")">>
MsgEncrypted == <<"D", "o", "c", "u", "m", "e", "n", "t", " ", "i", "s", " ", "e", "n", "c", "r", "y", "p", "t", "e", "d", " ", "a", "n", "d", " ", "r", "e", "q", "u", "i", "r", "e", "s", " ", "a", " ", "p", "a", "s", "s", "w", "o", "r", "d">>
MsgIo == <<"I", "O", " ", "e", "r", "r", "o", "r", ":", " ">>

---------------------------------------------------------------------------
(* The environment: the file system and what the provider makes of a file. *)

PathA == <<"/", "a">>
PathB == <<"/", "b">>
Paths == {PathA, PathB}

\* Texts the provider decodes from a page.
PageTexts == {<<>>, <<"A">>, <<"B", "\n">>}

\* The provider's message when a page's content stream cannot be decoded.
DecodeMsg == <<"f", "o", "n", "t">>

OkPage(t) == [ok |-> TRUE, text |-> t, msg |-> <<>>]
BadPage == [ok |-> FALSE, text |-> <<>>, msg |-> DecodeMsg]
PageOutcomes == {OkPage(t) : t \in PageTexts} \cup {BadPage}

\* Page tables: the provider numbers the pages 1..n in document order.
PageTables == UNION {[1..n -> PageOutcomes] : n \in 0..MaxPages}

\* The provider's messages when it cannot parse a file.
LoadMessages ==
    { StrEncrypted,
      StrInvalidLower \o <<" ">> \o StrPassword,
      StrInvalidUpper,
      StrInvalidLower,
      <<"e", "o", "f">> }

MetaKeys == {"Title", "Author", "Subject", "Creator"}

AbsentField == [st |-> "absent", text |-> <<>>]
UndecodableField == [st |-> "undecodable", text |-> <<>>]
TextField(t) == [st |-> "text", text |-> t]

NoFields == [k \in MetaKeys |-> AbsentField]
NoInfo == [slot |-> "absent", fields |-> NoFields]
SomeInfo ==
    [slot |-> "ref",
     fields |-> [k \in MetaKeys |->
                    IF k = "Title" THEN TextField(<<"T">>)
                    ELSE IF k = "Author" THEN UndecodableField
                    ELSE AbsentField]]

Missing ==
    [kind |-> "missing", msg |-> <<>>, pages |-> <<>>,
     encrypted |-> FALSE, has_state |-> FALSE, info |-> NoInfo]
Unparseable(m) ==
    [kind |-> "unparseable", msg |-> m, pages |-> <<>>,
     encrypted |-> FALSE, has_state |-> FALSE, info |-> NoInfo]
Pdf(pages, encrypted, has_state, info) ==
    [kind |-> "pdf", msg |-> <<>>, pages |-> pages,
     encrypted |-> encrypted, has_state |-> has_state, info |-> info]

OnePage == [i \in 1..1 |-> OkPage(<<"A">>)]

FileStates ==
    {Missing}
    \cup {Unparseable(m) : m \in LoadMessages}
    \cup {Pdf(p, FALSE, FALSE, NoInfo) : p \in PageTables}
    \cup {Pdf(OnePage, e, s, NoInfo) : e \in BOOLEAN, s \in BOOLEAN}
    \cup {Pdf(OnePage, FALSE, FALSE, SomeInfo)}

OtherStates == {Missing, Pdf([i \in 1..1 |-> OkPage(<<"B", "\n">>)], FALSE, FALSE, NoInfo)}

\* Path::exists
PathExists(file_path) == fs[file_path].kind # "missing"

\* u32 arguments a caller may send for a page number.
PageArgs == 0..(MaxPages + 1)

---------------------------------------------------------------------------
(* Errors (src/src/error.rs). *)

PdfErr(kind, msg, page, total) ==
    [kind |-> kind, msg |-> msg, page |-> page, total |-> total]

FileNotFound(path) == PdfErr("FileNotFound", path, 0, 0)
InvalidFormat(msg) == PdfErr("InvalidFormat", msg, 0, 0)
ParseError(msg) == PdfErr("ParseError", msg, 0, 0)
PageNotFound(page, total) == PdfErr("PageNotFound", <<>>, page, total)
EncryptedDocument == PdfErr("EncryptedDocument", <<>>, 0, 0)
NoError == PdfErr("none", <<>>, 0, 0)

InvalidParams(message) == [code |-> "invalid_params", message |-> message]
InternalError(message) == [code |-> "internal_error", message |-> message]
NoErrorData == [code |-> "none", message |-> <<>>]

\* The mapping with every error sent to invalid-parameters.
ErrorDataFromAllInvalid(err) ==
    InvalidParams(IF err.kind = "ParseError" THEN MsgParseError \o err.msg ELSE err.msg)

\* impl From<PdfError> for ErrorData
ErrorDataFrom(err) ==
    CASE err.kind = "FileNotFound" -> InvalidParams(MsgFileNotFound \o err.msg)
      [] err.kind = "InvalidFormat" -> InvalidParams(MsgInvalidFormat \o err.msg)
      [] err.kind = "ParseError" -> InternalError(MsgParseError \o err.msg)
      [] err.kind = "PageNotFound" ->
            InvalidParams(MsgPageA \o Digits(err.page) \o MsgPageB
                          \o Digits(err.total) \o MsgPageC)
      [] err.kind = "EncryptedDocument" -> InvalidParams(MsgEncrypted)
      [] err.kind = "IoError" -> InternalError(MsgIo \o err.msg)

---------------------------------------------------------------------------
(* The provider's calls, as the reader sees them.  Each result of the      *)
(* reader carries the trace of the provider and file-system calls made.    *)

Call(name, page) == [call |-> name, page |-> page]

NoDoc == Missing

\* Document::load answering from a handle kept from the previous call.
DocumentLoadCached(file_path) ==
    LET f == IF last.op # "none" THEN fs[last.file_path] ELSE fs[file_path]
    IN  IF f.kind = "pdf"
        THEN [ok |-> TRUE, doc |-> f, msg |-> <<>>]
        ELSE [ok |-> FALSE, doc |-> NoDoc, msg |-> f.msg]

\* Document::load: the parsed document, or the provider's message.
DocumentLoad(file_path) ==
    LET f == fs[file_path]
    IN  IF f.kind = "pdf"
        THEN [ok |-> TRUE, doc |-> f, msg |-> <<>>]
        ELSE [ok |-> FALSE, doc |-> NoDoc, msg |-> f.msg]

\* Document::get_pages: a BTreeMap keyed 1..n; its keys in ascending order.
PageKeys(doc) == [i \in 1..Len(doc.pages) |-> i]

\* Document::extract_text(&[page_num])
ProviderExtractText(doc, page_num) ==
    IF page_num \in DOMAIN doc.pages
    THEN doc.pages[page_num]
    ELSE BadPage

---------------------------------------------------------------------------
(* PdfReader (src/src/pdf_reader.rs). *)

\* The closure with the test for invalidity ahead of the test for encryption.
ClassifyLoadErrorInvalidFirst(err_str) ==
    IF Contains(err_str, StrInvalidLower) \/ Contains(err_str, StrInvalidUpper)
    THEN InvalidFormat(err_str)
    ELSE IF Contains(err_str, StrEncrypted) \/ Contains(err_str, StrPassword)
    THEN EncryptedDocument
    ELSE ParseError(err_str)

\* The closure of map_err in load_document.
ClassifyLoadError(err_str) ==
    IF Contains(err_str, StrEncrypted) \/ Contains(err_str, StrPassword)
    THEN EncryptedDocument
    ELSE IF Contains(err_str, StrInvalidLower) \/ Contains(err_str, StrInvalidUpper)
    THEN InvalidFormat(err_str)
    ELSE ParseError(err_str)

\* The check with || in place of &&.
EncryptedOrWithoutState(doc) == doc.encrypted \/ ~doc.has_state

\* doc.is_encrypted() && doc.encryption_state.is_none()
EncryptedWithoutState(doc) == doc.encrypted /\ ~doc.has_state

LoadFail(err, trace) == [ok |-> FALSE, doc |-> NoDoc, err |-> err, trace |-> trace]

\* load_document with the parse ahead of the existence check.
LoadDocumentParseFirst(file_path) ==
    LET loaded == DocumentLoad(file_path)
        t2 == <<Call("load", 0), Call("exists", 0)>>
    IN  IF ~PathExists(file_path) THEN LoadFail(FileNotFound(file_path), t2)
        ELSE IF ~loaded.ok THEN LoadFail(ClassifyLoadError(loaded.msg), t2)
        ELSE IF EncryptedWithoutState(loaded.doc)
        THEN LoadFail(EncryptedDocument, t2 \o <<Call("is_encrypted", 0)>>)
        ELSE [ok |-> TRUE, doc |-> loaded.doc, err |-> NoError,
              trace |-> t2 \o <<Call("is_encrypted", 0)>>]

LoadDocument(file_path) ==
    IF ~PathExists(file_path)
    THEN LoadFail(FileNotFound(file_path), <<Call("exists", 0)>>)
    ELSE LET loaded == DocumentLoad(file_path)
             t2 == <<Call("exists", 0), Call("load", 0)>>
         IN  IF ~loaded.ok
             THEN LoadFail(ClassifyLoadError(loaded.msg), t2)
             ELSE IF EncryptedWithoutState(loaded.doc)
             THEN LoadFail(EncryptedDocument, t2 \o <<Call("is_encrypted", 0)>>)
             ELSE [ok |-> TRUE, doc |-> loaded.doc, err |-> NoError,
                   trace |-> t2 \o <<Call("is_encrypted", 0)>>]

Absent == [some |-> FALSE, text |-> <<>>]
Some(t) == [some |-> TRUE, text |-> t]

PdfInfo(page_count, title, author, subject, creator) ==
    [page_count |-> page_count, title |-> title, author |-> author,
     subject |-> subject, creator |-> creator]
NoPdfInfo == PdfInfo(0, Absent, Absent, Absent, Absent)

OkText(text, trace) ==
    [ok |-> TRUE, text |-> text, info |-> NoPdfInfo, err |-> NoError, trace |-> trace]
OkInfo(info, trace) ==
    [ok |-> TRUE, text |-> <<>>, info |-> info, err |-> NoError, trace |-> trace]
Err(err, trace) ==
    [ok |-> FALSE, text |-> <<>>, info |-> NoPdfInfo, err |-> err, trace |-> trace]

\* The Ok arm with a newline before every page's text.
AppendPageAlwaysNewline(all_text, text) == all_text \o <<"\n">> \o text

\* The Ok arm assigning the page's text instead of appending it.
AppendPageOverwrite(all_text, text) == text

\* The Ok arm of the page loop: a newline only between two non-empty texts.
AppendPage(all_text, text) ==
    (IF all_text # <<>> /\ text # <<>> THEN all_text \o <<"\n">> ELSE all_text) \o text

\* The note about skipped pages, appended when there are any.
SkippedNote(all_text, skipped_pages) ==
    IF skipped_pages # <<>>
    THEN all_text \o NotePrefix \o Digits(Len(skipped_pages)) \o NoteMiddle
                  \o DebugVec(skipped_pages) \o NoteSuffix
    ELSE all_text

\* The iteration with the Err arm leaving skipped_pages as it is.
PageStepDropsSkipped(doc, acc, page_num) ==
    LET r == ProviderExtractText(doc, page_num)
        tr == Append(acc.trace, Call("extract_text", page_num))
    IN  [all_text |-> IF r.ok THEN AppendPage(acc.all_text, r.text) ELSE acc.all_text,
         skipped_pages |-> acc.skipped_pages, trace |-> tr]

\* One iteration of the page loop, for page page_num.
PageStep(doc, acc, page_num) ==
    LET r == ProviderExtractText(doc, page_num)
        tr == Append(acc.trace, Call("extract_text", page_num))
    IN  IF r.ok
        THEN [all_text |-> AppendPage(acc.all_text, r.text),
              skipped_pages |-> acc.skipped_pages, trace |-> tr]
        ELSE [all_text |-> acc.all_text,
              skipped_pages |-> Append(acc.skipped_pages, page_num), trace |-> tr]

RECURSIVE PageLoop(_, _, _, _)
\* The page loop over page_nums, from its i-th element on.
PageLoop(doc, page_nums, i, acc) ==
    IF i > Len(page_nums) THEN acc
    ELSE PageLoop(doc, page_nums, i + 1, PageStep(doc, acc, page_nums[i]))

\* String::new() and Vec::new() before the loop.
NewAcc(trace) == [all_text |-> <<>>, skipped_pages |-> <<>>, trace |-> trace]

ExtractText(file_path) ==
    LET ld == LoadDocument(file_path)
    IN  IF ~ld.ok THEN Err(ld.err, ld.trace)
        ELSE LET page_nums == PageKeys(ld.doc)
                 t == Append(ld.trace, Call("get_pages", 0))
             IN  IF page_nums = <<>> THEN OkText(<<>>, t)
                 ELSE LET acc == PageLoop(ld.doc, page_nums, 1, NewAcc(t))
                      IN  OkText(SkippedNote(acc.all_text, acc.skipped_pages), acc.trace)

\* The bound check with its lower half forgotten.
PageInRangeNoLower(page, page_count) == ~(page > page_count)

\* page < 1 || page as usize > page_count, negated
PageInRange(page, page_count) == ~(page < 1 \/ page > page_count)

\* The range error with its two bounds exchanged.
RangeOrderErrorSwapped(start_page, end_page) ==
    ParseError(RangeMsgA \o Digits(end_page) \o RangeMsgB
               \o Digits(start_page) \o RangeMsgC)

\* The error of start_page > end_page.
RangeOrderError(start_page, end_page) ==
    ParseError(RangeMsgA \o Digits(start_page) \o RangeMsgB
               \o Digits(end_page) \o RangeMsgC)

\* start_page..end_page, the end left out.
RangeExclusive(start_page, end_page) ==
    [i \in 1..(end_page - start_page) |-> start_page + i - 1]

\* start_page..=end_page
RangeInclusive(start_page, end_page) ==
    [i \in 1..(end_page - start_page + 1) |-> start_page + i - 1]

\* extract_page_range_text with start_page > end_page tested ahead of the bounds.
ExtractPageRangeTextOrderFirst(file_path, start_page, end_page) ==
    LET ld == LoadDocument(file_path)
    IN  IF ~ld.ok THEN Err(ld.err, ld.trace)
        ELSE LET page_count == Len(PageKeys(ld.doc))
                 t == Append(ld.trace, Call("get_pages", 0))
             IN  IF start_page > end_page
                 THEN Err(RangeOrderError(start_page, end_page), t)
                 ELSE IF ~PageInRange(start_page, page_count)
                 THEN Err(PageNotFound(start_page, page_count), t)
                 ELSE IF ~PageInRange(end_page, page_count)
                 THEN Err(PageNotFound(end_page, page_count), t)
                 ELSE LET acc == PageLoop(ld.doc, RangeInclusive(start_page, end_page),
                                          1, NewAcc(t))
                      IN  OkText(SkippedNote(acc.all_text, acc.skipped_pages), acc.trace)

ExtractPageRangeText(file_path, start_page, end_page) ==
    LET ld == LoadDocument(file_path)
    IN  IF ~ld.ok THEN Err(ld.err, ld.trace)
        ELSE LET page_count == Len(PageKeys(ld.doc))
                 t == Append(ld.trace, Call("get_pages", 0))
             IN  IF ~PageInRange(start_page, page_count)
                 THEN Err(PageNotFound(start_page, page_count), t)
                 ELSE IF ~PageInRange(end_page, page_count)
                 THEN Err(PageNotFound(end_page, page_count), t)
                 ELSE IF start_page > end_page
                 THEN Err(RangeOrderError(start_page, end_page), t)
                 ELSE LET acc == PageLoop(ld.doc, RangeInclusive(start_page, end_page),
                                          1, NewAcc(t))
                      IN  OkText(SkippedNote(acc.all_text, acc.skipped_pages), acc.trace)

\* The single page read as the range page..=page, skipping what fails.
ExtractPageTextViaRange(file_path, page) == ExtractPageRangeText(file_path, page, page)

ExtractPageText(file_path, page) ==
    LET ld == LoadDocument(file_path)
    IN  IF ~ld.ok THEN Err(ld.err, ld.trace)
        ELSE LET page_count == Len(PageKeys(ld.doc))
                 t == Append(ld.trace, Call("get_pages", 0))
             IN  IF ~PageInRange(page, page_count)
                 THEN Err(PageNotFound(page, page_count), t)
                 ELSE LET r == ProviderExtractText(ld.doc, page)
                          t2 == Append(t, Call("extract_text", page))
                      IN  IF r.ok THEN OkText(r.text, t2)
                          ELSE Err(ParseError(PageFailPrefix \o Digits(page)
                                              \o <<":", " ">> \o r.msg), t2)

\* get_string_from_dict: the key is there and its value decodes.
GetStringFromDict(dict, key) ==
    IF dict[key].st = "text" THEN Some(dict[key].text) ELSE Absent

\* The Info dictionary extract_metadata reads, if it finds one.
ResolveInfo(doc) ==
    CASE doc.info.slot = "absent" -> [found |-> FALSE, dict |-> NoFields]
      [] doc.info.slot = "ref" -> [found |-> TRUE, dict |-> doc.info.fields]
      [] doc.info.slot = "bad_ref" -> [found |-> FALSE, dict |-> NoFields]
      [] doc.info.slot = "dict" -> [found |-> TRUE, dict |-> doc.info.fields]
      [] OTHER -> [found |-> FALSE, dict |-> NoFields]

\* extract_metadata giving up on every key when one value does not decode.
ExtractMetadataAllOrNothing(doc) ==
    LET r == ResolveInfo(doc)
    IN  IF ~r.found \/ \E k \in MetaKeys : r.dict[k].st = "undecodable"
        THEN [k \in MetaKeys |-> Absent]
        ELSE [k \in MetaKeys |-> GetStringFromDict(r.dict, k)]

ExtractMetadata(doc) ==
    LET r == ResolveInfo(doc)
    IN  IF ~r.found
        THEN [k \in MetaKeys |-> Absent]
        ELSE [k \in MetaKeys |-> GetStringFromDict(r.dict, k)]

GetInfo(file_path) ==
    LET ld == LoadDocument(file_path)
    IN  IF ~ld.ok THEN Err(ld.err, ld.trace)
        ELSE LET page_count == Len(PageKeys(ld.doc))
                 m == ExtractMetadata(ld.doc)
             IN  OkInfo(PdfInfo(page_count, m["Title"], m["Author"],
                                m["Subject"], m["Creator"]),
                        ld.trace \o <<Call("get_pages", 0), Call("trailer", 0)>>)

---------------------------------------------------------------------------
(* The tools (src/src/service.rs). *)

Success(content) == [is_error |-> FALSE, error |-> NoErrorData, content |-> content]
Failure(error) == [is_error |-> TRUE, error |-> error, content |-> <<>>]

\* .map_err(McpError::from)? and CallToolResult::success of the text
TextResponse(core) ==
    IF core.ok THEN Success(core.text) ELSE Failure(ErrorDataFrom(core.err))

RECURSIVE JsonEscape(_)
\* serde_json's escaping of the characters of a string.
JsonEscape(t) ==
    IF t = <<>> THEN <<>>
    ELSE (CASE Head(t) = "\"" -> <<"\\", "\"">>
            [] Head(t) = "\\" -> <<"\\", "\\">>
            [] Head(t) = "\n" -> <<"\\", "n">>
            [] OTHER -> <<Head(t)>>) \o JsonEscape(Tail(t))

JsonKey(name) == <<"\n", " ", " ", "\"">> \o name \o <<"\"", ":", " ">>

\* An Option<String> field under skip_serializing_if = "Option::is_none".
JsonOptional(name, opt) ==
    IF opt.some
    THEN <<",">> \o JsonKey(name) \o <<"\"">> \o JsonEscape(opt.text) \o <<"\"">>
    ELSE <<>>

\* serde_json::to_string_pretty(&info)
ToStringPretty(info) ==
    <<"{">>
    \o JsonKey(<<"p", "a", "g", "e", "_", "c", "o", "u", "n", "t">>)
    \o Digits(info.page_count)
    \o JsonOptional(<<"t", "i", "t", "l", "e">>, info.title)
    \o JsonOptional(<<"a", "u", "t", "h", "o", "r">>, info.author)
    \o JsonOptional(<<"s", "u", "b", "j", "e", "c", "t">>, info.subject)
    \o JsonOptional(<<"c", "r", "e", "a", "t", "o", "r">>, info.creator)
    \o <<"\n", "}">>

InfoResponse(core) ==
    IF core.ok THEN Success(ToStringPretty(core.info)) ELSE Failure(ErrorDataFrom(core.err))

Invocation(op, file_path, page, start_page, end_page, core, response) ==
    [op |-> op, file_path |-> file_path, page |-> page,
     start_page |-> start_page, end_page |-> end_page,
     core |-> core, response |-> response]

NoCall == Invocation("none", <<>>, 0, 0, 0, Err(NoError, <<>>), Failure(NoErrorData))

---------------------------------------------------------------------------
(* The state machine.  fs is the file system, which no operation writes;   *)
(* last is the latest invocation of a tool with what it returned; first    *)
(* is an earlier invocation kept for comparison.                           *)

\* One path holds any of the file states, the other no file or a fixed one.
Init ==
    /\ \E p \in Paths, c \in FileStates, o \in OtherStates :
          fs = [q \in Paths |-> IF q = p THEN c ELSE o]
    /\ last = NoCall
    /\ first = NoCall

ReadPdf(file_path) ==
    /\ LET core == ExtractText(file_path)
       IN  last' = Invocation("read_pdf", file_path, 0, 0, 0, core, TextResponse(core))
    /\ UNCHANGED <<fs, first>>

ReadPdfPage(file_path, page) ==
    /\ LET core == ExtractPageText(file_path, page)
       IN  last' = Invocation("read_pdf_page", file_path, page, 0, 0,
                              core, TextResponse(core))
    /\ UNCHANGED <<fs, first>>

ReadPdfPages(file_path, start_page, end_page) ==
    /\ LET core == ExtractPageRangeText(file_path, start_page, end_page)
       IN  last' = Invocation("read_pdf_pages", file_path, 0, start_page, end_page,
                              core, TextResponse(core))
    /\ UNCHANGED <<fs, first>>

GetPdfInfo(file_path) ==
    /\ LET core == GetInfo(file_path)
       IN  last' = Invocation("get_pdf_info", file_path, 0, 0, 0, core, InfoResponse(core))
    /\ UNCHANGED <<fs, first>>

Next ==
    \/ \E f \in Paths : ReadPdf(f)
    \/ \E f \in Paths, p \in PageArgs : ReadPdfPage(f, p)
    \/ \E f \in Paths, s \in PageArgs, e \in PageArgs : ReadPdfPages(f, s, e)
    \/ \E f \in Paths : GetPdfInfo(f)

Spec == Init /\ [][Next]_vars

\* Files for the comparison of invocations: both paths may hold one.
IdemFileStates ==
    { Missing,
      Unparseable(StrInvalidUpper),
      Pdf(<<OkPage(<<"A">>), BadPage>>, FALSE, FALSE, NoInfo),
      Pdf(OnePage, FALSE, FALSE, SomeInfo) }

InitIdem ==
    /\ fs \in [Paths -> IdemFileStates]
    /\ last = NoCall
    /\ first = NoCall

\* Keep the latest invocation, to compare the later ones with it.
Remember ==
    /\ last.op # "none"
    /\ first.op = "none"
    /\ first' = last
    /\ UNCHANGED <<fs, last>>

NextIdem == Next \/ Remember

SpecIdem == InitIdem /\ [][NextIdem]_vars

\* What the trailer holds under Info, and what each key of the dictionary holds.
InfoSlots == {"absent", "ref", "bad_ref", "dict", "other"}
FieldStates == {AbsentField, UndecodableField, TextField(<<>>), TextField(<<"T">>)}
InfoStates == [slot : InfoSlots, fields : [MetaKeys -> FieldStates]]

\* A loaded document of 0..MaxPages pages with any of the Info states.
InitInfo ==
    /\ \E p \in Paths, n \in 0..MaxPages, i \in InfoStates :
          fs = [q \in Paths |->
                  IF q = p THEN Pdf([k \in 1..n |-> OkPage(<<"A">>)], FALSE, FALSE, i)
                  ELSE Missing]
    /\ last = NoCall
    /\ first = NoCall

NextInfo == \E f \in Paths : GetPdfInfo(f)

SpecInfo == InitInfo /\ [][NextInfo]_vars

---------------------------------------------------------------------------
(* What the claims speak of, read off the file system and the arguments.   *)

\* The file parses and is not encrypted without a decryption state.
Loadable(f) ==
    /\ fs[f].kind = "pdf"
    /\ ~(fs[f].encrypted /\ ~fs[f].has_state)

\* The number of entries of the file's page table.
PageCount(f) == Len(fs[f].pages)

Called == last.op # "none"

\* The pages the invocation asked the provider to decode, in order.
Decoded(trace) ==
    LET d == SelectSeq(trace, LAMBDA c : c.call = "extract_text")
    IN  [i \in 1..Len(d) |-> d[i].page]

ParserInvoked(trace) == \E i \in 1..Len(trace) : trace[i].call = "load"

---------------------------------------------------------------------------
\* C1: on a loaded document, extract_page of a page below 1 or above the
\* page count fails with PageNotFound(page, page_count), the page count being
\* the one get_info reports for the same file, and decodes no page.
C1_PageNotFound ==
    (/\ last.op = "read_pdf_page"
     /\ Loadable(last.file_path)
     /\ (last.page < 1 \/ last.page > PageCount(last.file_path)))
    => LET info == GetInfo(last.file_path)
       IN  /\ info.ok
           /\ info.info.page_count = PageCount(last.file_path)
           /\ ~last.core.ok
           /\ last.core.err = PageNotFound(last.page, info.info.page_count)
           /\ Decoded(last.core.trace) = <<>>

C1_Witness ==
    /\ last.op = "read_pdf_page"
    /\ Loadable(last.file_path)
    /\ PageCount(last.file_path) = MaxPages
    /\ last.page = MaxPages + 1
    /\ last.core.err.kind = "PageNotFound"

\* The message names start between parentheses and, after it, end.
CarriesBounds(msg, start_page, end_page) ==
    \E k \in 1..Len(msg) :
        /\ Contains(SubSeq(msg, 1, k), <<"(">> \o Digits(start_page) \o <<")">>)
        /\ Contains(SubSeq(msg, k + 1, Len(msg)), <<"(">> \o Digits(end_page) \o <<")">>)

ValidBoundsReversed ==
    /\ last.op = "read_pdf_pages"
    /\ Loadable(last.file_path)
    /\ last.start_page \in 1..PageCount(last.file_path)
    /\ last.end_page \in 1..PageCount(last.file_path)
    /\ last.start_page > last.end_page

\* C2: a range whose bounds are each valid and start > end fails with an
\* error that carries start and end; no text is returned, no page is decoded,
\* and the result is not that of the range with its bounds exchanged.
C2_RangeOrder ==
    ValidBoundsReversed
    => /\ ~last.core.ok
       /\ last.core.err.kind \notin {"none", "PageNotFound", "FileNotFound"}
       /\ CarriesBounds(last.core.err.msg, last.start_page, last.end_page)
       /\ last.core.text = <<>>
       /\ last.response.is_error
       /\ last.response.content = <<>>
       /\ Decoded(last.core.trace) = <<>>
       /\ ExtractPageRangeText(last.file_path, last.end_page, last.start_page).ok
       /\ last.core # ExtractPageRangeText(last.file_path, last.end_page,
                                           last.start_page)

C2_Witness ==
    /\ ValidBoundsReversed
    /\ last.start_page = 2
    /\ last.end_page = 1
    /\ ~last.core.ok

\* The provider's message says the file is encrypted.
SaysEncrypted(m) == Contains(m, StrEncrypted) \/ Contains(m, StrPassword)

\* The caller's errors: a missing file, an encrypted document, a page index
\* out of range, a range with a bound out of range or with start > end.
CallerError ==
    /\ Called
    /\ \/ fs[last.file_path].kind = "missing"
       \/ fs[last.file_path].kind = "unparseable" /\ SaysEncrypted(fs[last.file_path].msg)
       \/ fs[last.file_path].kind = "pdf" /\ ~Loadable(last.file_path)
       \/ /\ Loadable(last.file_path)
          /\ last.op = "read_pdf_page"
          /\ last.page \notin 1..PageCount(last.file_path)
       \/ /\ Loadable(last.file_path)
          /\ last.op = "read_pdf_pages"
          /\ \/ last.start_page \notin 1..PageCount(last.file_path)
             \/ last.end_page \notin 1..PageCount(last.file_path)
             \/ last.start_page > last.end_page

\* C3: every caller error is answered with invalid-parameters, by each tool.
C3_CallerErrorsInvalidParams ==
    CallerError => (last.response.is_error /\ last.response.error.code = "invalid_params")

\* The failures of parsing and decoding: the provider cannot parse the file
\* (and does not say it is encrypted), or cannot decode the one page asked for.
ParsingFailure ==
    /\ Called
    /\ \/ fs[last.file_path].kind = "unparseable" /\ ~SaysEncrypted(fs[last.file_path].msg)
       \/ /\ Loadable(last.file_path)
          /\ last.op = "read_pdf_page"
          /\ last.page \in 1..PageCount(last.file_path)
          /\ ~fs[last.file_path].pages[last.page].ok

SaysInvalid(m) == Contains(m, StrInvalidLower) \/ Contains(m, StrInvalidUpper)

---------------------------------------------------------------------------
\* The indices of the pages of f in lo..hi that the provider cannot decode.
FailingIn(f, lo, hi) ==
    SelectSeq([i \in 1..(hi - lo + 1) |-> lo + i - 1], LAMBDA i : ~fs[f].pages[i].ok)

\* The note for the skipped pages v: two newlines, the count, the list.
NoteFor(v) ==
    <<"\n", "\n">> \o <<"[", "N", "o", "t", "e", ":", " ">> \o Digits(Len(v))
    \o NoteMiddle \o DebugVec(v) \o <<"]">>

NoteMark == <<"[", "N", "o", "t", "e", ":">>

\* C5: extract_all of a loaded document succeeds whatever pages fail; it
\* asks for every page once, in page order; the text of every decodable page
\* is in the result; the result ends with the note naming the count and the
\* indices of the failing pages exactly when some page fails.
C5_ExtractAllSkips ==
    (last.op = "read_pdf" /\ Loadable(last.file_path))
    => LET f == last.file_path
           n == PageCount(f)
           failing == FailingIn(f, 1, n)
       IN  /\ last.core.ok
           /\ ~last.response.is_error
           /\ last.response.content = last.core.text
           /\ Decoded(last.core.trace) = [i \in 1..n |-> i]
           /\ \A i \in 1..n :
                 fs[f].pages[i].ok => Contains(last.core.text, fs[f].pages[i].text)
           /\ failing # <<>> => EndsWith(last.core.text, NoteFor(failing))
           /\ failing = <<>> => ~Contains(last.core.text, NoteMark)

C5_Witness ==
    /\ last.op = "read_pdf"
    /\ Loadable(last.file_path)
    /\ PageCount(last.file_path) = MaxPages
    /\ ~fs[last.file_path].pages[1].ok
    /\ fs[last.file_path].pages[MaxPages].ok
    /\ fs[last.file_path].pages[MaxPages].text # <<>>
    /\ last.core.ok
    /\ Contains(last.core.text, NoteMark)

UndecodablePageAsked ==
    /\ last.op = "read_pdf_page"
    /\ Loadable(last.file_path)
    /\ last.page \in 1..PageCount(last.file_path)
    /\ ~fs[last.file_path].pages[last.page].ok

\* C6: extract_page of a valid page the provider cannot decode fails with
\* ParseError naming the page and carrying the provider's message; no text
\* and no note of a skipped page is returned.
C6_SinglePageParseError ==
    UndecodablePageAsked
    => /\ ~last.core.ok
       /\ last.core.err.kind = "ParseError"
       /\ Contains(last.core.err.msg, <<"p", "a", "g", "e", " ">> \o Digits(last.page))
       /\ EndsWith(last.core.err.msg, fs[last.file_path].pages[last.page].msg)
       /\ last.core.text = <<>>
       /\ last.response.is_error
       /\ last.response.content = <<>>
       /\ Decoded(last.core.trace) = <<last.page>>

C6_Witness ==
    /\ UndecodablePageAsked
    /\ last.page = 2
    /\ fs[last.file_path].pages[1].ok
    /\ last.core.err.kind = "ParseError"

\* C7: every operation checks that the file exists before anything else; on
\* a path that holds no file it fails with FileNotFound(file_path) without
\* invoking the parser, reading the page table or decoding a page.
C7_MissingFileFirst ==
    Called
    => /\ last.core.trace # <<>>
       /\ last.core.trace[1] = Call("exists", 0)
       /\ fs[last.file_path].kind = "missing"
          => /\ ~last.core.ok
             /\ last.core.err = FileNotFound(last.file_path)
             /\ ~ParserInvoked(last.core.trace)
             /\ last.core.trace = <<Call("exists", 0)>>

C7_Witness ==
    /\ last.op = "read_pdf_pages"
    /\ fs[last.file_path].kind = "missing"
    /\ \E q \in Paths : fs[q].kind = "pdf"
    /\ last.core.err.kind = "FileNotFound"
    /\ last.core.err.msg = last.file_path

\* C8: when no page of a loaded document fails to decode, extract_page of
\* every page 1..page_count returns a text, and that text is a contiguous
\* part of what extract_all returns.
C8_PageTextInAll ==
    (/\ last.op = "read_pdf"
     /\ Loadable(last.file_path)
     /\ FailingIn(last.file_path, 1, PageCount(last.file_path)) = <<>>)
    => \A p \in 1..PageCount(last.file_path) :
          LET r == ExtractPageText(last.file_path, p)
          IN  /\ r.ok
              /\ r.text = fs[last.file_path].pages[p].text
              /\ last.core.ok
              /\ Contains(last.core.text, r.text)

C8_Witness ==
    /\ last.op = "read_pdf"
    /\ Loadable(last.file_path)
    /\ PageCount(last.file_path) = MaxPages
    /\ FailingIn(last.file_path, 1, MaxPages) = <<>>
    /\ fs[last.file_path].pages[1].text = <<"A">>
    /\ fs[last.file_path].pages[MaxPages].text = <<"B", "\n">>
    /\ last.core.ok

RECURSIVE JoinNonEmpty(_)
\* The non-empty texts of a sequence, a newline between each two.
JoinNonEmpty(texts) ==
    LET ne == SelectSeq(texts, LAMBDA t : t # <<>>)
    IN  IF ne = <<>> THEN <<>>
        ELSE IF Len(ne) = 1 THEN ne[1]
        ELSE ne[1] \o <<"\n">> \o JoinNonEmpty(Tail(ne))

\* The texts of the decodable pages of f in lo..hi, in page order.
TextsIn(f, lo, hi) ==
    LET ok == SelectSeq([i \in 1..(hi - lo + 1) |-> lo + i - 1],
                        LAMBDA i : fs[f].pages[i].ok)
    IN  [i \in 1..Len(ok) |-> fs[f].pages[ok[i]].text]

ValidRange ==
    /\ last.op = "read_pdf_pages"
    /\ Loadable(last.file_path)
    /\ 1 <= last.start_page
    /\ last.start_page <= last.end_page
    /\ last.end_page <= PageCount(last.file_path)

\* C9: extract_range of a valid range returns the texts of the decodable
\* pages start..end joined as extract_all joins them, followed by the note
\* for the failing pages among start..end; it decodes those pages only and
\* holds no text of a page outside the range; extract_range(1, page_count)
\* returns what extract_all returns.
C9_RangeIsRestriction ==
    ValidRange
    => LET f == last.file_path
           s == last.start_page
           e == last.end_page
           failing == FailingIn(f, s, e)
       IN  /\ last.core.ok
           /\ last.core.text =
                 JoinNonEmpty(TextsIn(f, s, e))
                 \o (IF failing # <<>> THEN NoteFor(failing) ELSE <<>>)
           /\ Decoded(last.core.trace) = [i \in 1..(e - s + 1) |-> s + i - 1]
           /\ \A q \in (1..PageCount(f)) \ (s..e) :
                 (/\ fs[f].pages[q].ok
                  /\ fs[f].pages[q].text # <<>>
                  /\ \A i \in s..e : ~Contains(fs[f].pages[i].text, fs[f].pages[q].text))
                 => ~Contains(last.core.text, fs[f].pages[q].text)
           /\ (s = 1 /\ e = PageCount(f)) => last.core.text = ExtractText(f).text

C9_Witness ==
    /\ ValidRange
    /\ last.start_page = 2
    /\ last.end_page = PageCount(last.file_path)
    /\ fs[last.file_path].pages[1].text = <<"A">>
    /\ fs[last.file_path].pages[2].text = <<"B", "\n">>
    /\ last.core.text = <<"B", "\n">>

SameRequest(a, b) ==
    /\ a.op = b.op
    /\ a.file_path = b.file_path
    /\ a.page = b.page
    /\ a.start_page = b.start_page
    /\ a.end_page = b.end_page

---------------------------------------------------------------------------
\* The Info dictionary is found: the trailer holds a reference that resolves
\* to a dictionary, or the dictionary itself.
InfoResolved(f) == fs[f].info.slot \in {"ref", "dict"}

\* What get_info is to report for key k of file f.
ExpectedField(f, k) ==
    IF InfoResolved(f) /\ fs[f].info.fields[k].st = "text"
    THEN Some(fs[f].info.fields[k].text)
    ELSE Absent

\* C11: get_info of a loaded document succeeds whatever the trailer's Info
\* entry and the four values are; page_count is the length of the page
\* table; each of title, author, subject, creator is present exactly when the
\* Info dictionary is resolved and holds that key with a value that decodes,
\* whatever the other three keys hold.
C11_InfoNeverFails ==
    (last.op = "get_pdf_info" /\ Loadable(last.file_path))
    => LET f == last.file_path
           i == last.core.info
       IN  /\ last.core.ok
           /\ ~last.response.is_error
           /\ i.page_count = PageCount(f)
           /\ i.title = ExpectedField(f, "Title")
           /\ i.author = ExpectedField(f, "Author")
           /\ i.subject = ExpectedField(f, "Subject")
           /\ i.creator = ExpectedField(f, "Creator")

C11_Witness ==
    /\ last.op = "get_pdf_info"
    /\ Loadable(last.file_path)
    /\ fs[last.file_path].info.slot = "dict"
    /\ fs[last.file_path].info.fields["Title"].st = "undecodable"
    /\ fs[last.file_path].info.fields["Author"].st = "absent"
    /\ fs[last.file_path].info.fields["Subject"] = TextField(<<"T">>)
    /\ last.core.info.page_count = MaxPages
    /\ ~last.core.info.title.some
    /\ last.core.info.subject = Some(<<"T">>)

---------------------------------------------------------------------------
RECURSIVE TotalLen(_)
TotalLen(texts) == IF texts = <<>> THEN 0 ELSE Len(Head(texts)) + TotalLen(Tail(texts))

NoPageSkipped ==
    /\ last.op = "read_pdf"
    /\ Loadable(last.file_path)
    /\ FailingIn(last.file_path, 1, PageCount(last.file_path)) = <<>>

\* C12: when no page is skipped extract_all returns the page texts in page
\* order with one newline between each two non-empty texts and nothing else:
\* no newline ahead of the first non-empty text, none for an empty page, and
\* the empty string, as a success, for an empty page table.
C12_SeparatorRule ==
    NoPageSkipped
    => LET texts == TextsIn(last.file_path, 1, PageCount(last.file_path))
           ne == SelectSeq(texts, LAMBDA t : t # <<>>)
       IN  /\ last.core.ok
           /\ last.core.text = JoinNonEmpty(texts)
           /\ Len(last.core.text) =
                 TotalLen(texts) + (IF Len(ne) > 1 THEN Len(ne) - 1 ELSE 0)
           /\ ne # <<>> => SubSeq(last.core.text, 1, Len(ne[1])) = ne[1]
           /\ ne = <<>> => last.core.text = <<>>
           /\ ~Contains(last.core.text, NoteMark)

C12_Witness ==
    /\ NoPageSkipped
    /\ PageCount(last.file_path) = 2
    /\ fs[last.file_path].pages[1].text = <<>>
    /\ fs[last.file_path].pages[2].text = <<"A">>
    /\ last.core.text = <<"A">>

---------------------------------------------------------------------------
ProviderCannotParse == Called /\ fs[last.file_path].kind = "unparseable"

\* C13: when the file exists and the provider cannot parse it, the error is
\* EncryptedDocument if the message says encrypted or password, whatever else
\* it says; otherwise InvalidFormat with the message if it says invalid or
\* Invalid; otherwise ParseError with the message.  No other error results.
C13_LoadErrorPrecedence ==
    ProviderCannotParse
    => LET m == fs[last.file_path].msg
       IN  /\ ~last.core.ok
           /\ ParserInvoked(last.core.trace)
           /\ last.core.err.kind \in {"EncryptedDocument", "InvalidFormat", "ParseError"}
           /\ SaysEncrypted(m) => last.core.err = EncryptedDocument
           /\ (~SaysEncrypted(m) /\ SaysInvalid(m)) => last.core.err = InvalidFormat(m)
           /\ (~SaysEncrypted(m) /\ ~SaysInvalid(m)) => last.core.err = ParseError(m)

C13_Witness ==
    /\ ProviderCannotParse
    /\ SaysEncrypted(fs[last.file_path].msg)
    /\ SaysInvalid(fs[last.file_path].msg)
    /\ last.core.err = EncryptedDocument

ParsedDocument == Called /\ fs[last.file_path].kind = "pdf"

PageTableRead(trace) ==
    \E i \in 1..Len(trace) : trace[i].call \in {"get_pages", "extract_text", "trailer"}

\* C14: a document the provider parses, that says it is encrypted and has
\* no decryption state, fails to load with EncryptedDocument: no operation
\* reads its page table, decodes a page or returns text or info for it.  A
\* document encrypted with a decryption state, or not encrypted, loads.
C14_EncryptedAfterParse ==
    ParsedDocument
    => IF fs[last.file_path].encrypted /\ ~fs[last.file_path].has_state
       THEN /\ ~last.core.ok
            /\ last.core.err = EncryptedDocument
            /\ ~PageTableRead(last.core.trace)
            /\ last.core.text = <<>>
            /\ last.core.info = NoPdfInfo
            /\ last.response.is_error
            /\ last.response.content = <<>>
       ELSE /\ last.core.err.kind \notin
                  {"EncryptedDocument", "FileNotFound", "InvalidFormat"}
            /\ Call("get_pages", 0) \in {last.core.trace[i] : i \in 1..Len(last.core.trace)}
            /\ last.op \in {"read_pdf", "get_pdf_info"} => last.core.ok

C14_Witness ==
    /\ ParsedDocument
    /\ last.op = "read_pdf"
    /\ fs[last.file_path].encrypted
    /\ ~fs[last.file_path].has_state
    /\ last.core.err = EncryptedDocument

C14_WitnessDecrypted ==
    /\ ParsedDocument
    /\ last.op = "read_pdf"
    /\ fs[last.file_path].encrypted
    /\ fs[last.file_path].has_state
    /\ last.core.ok

---------------------------------------------------------------------------
RangeOnLoaded == last.op = "read_pdf_pages" /\ Loadable(last.file_path)

\* C15: extract_range checks start against 1..page_count, then end against
\* 1..page_count, then start <= end, and the first check that fails gives
\* the error: PageNotFound(start, page_count), PageNotFound(end, page_count),
\* the range-ordering error.  No page is decoded when a check fails.
C15_ValidationOrder ==
    RangeOnLoaded
    => LET n == PageCount(last.file_path)
           s == last.start_page
           e == last.end_page
       IN  /\ s \notin 1..n => last.core.err = PageNotFound(s, n)
           /\ (s \in 1..n /\ e \notin 1..n) => last.core.err = PageNotFound(e, n)
           /\ (s \in 1..n /\ e \in 1..n /\ s > e)
              => /\ last.core.err.kind \notin {"none", "PageNotFound"}
                 /\ CarriesBounds(last.core.err.msg, s, e)
           /\ (s \in 1..n /\ e \in 1..n /\ s <= e) => last.core.ok
           /\ ~last.core.ok => Decoded(last.core.trace) = <<>>

C15_Witness ==
    /\ RangeOnLoaded
    /\ PageCount(last.file_path) = 1
    /\ last.start_page = 2
    /\ last.end_page = 0
    /\ last.core.err = PageNotFound(2, 1)

====
